---- MODULE Spec2Model ----
(***************************************************************************)
(* A model of scripts/extract_learnings.py: the section extractor, the     *)
(* problem classifier, the session parser, the aggregator, the report      *)
(* renderer and the artifact locator of main.                              *)
(*                                                                         *)
(* A Python str is a sequence of one-character strings; Python's None is   *)
(* the one-element sequence <<"None">>, which no str equals since every    *)
(* element of a str is a single character.                                 *)
(***************************************************************************)
EXTENDS Integers, Sequences, FiniteSets, TLC

VARIABLES
    pc,              \* position of the modelled call
    content,         \* _extract_section: the report text it is given
    section,         \* _extract_section: the value it returns
    learning,        \* the session record (analyze_session's result, _categorize_problem's input)
    category,        \* _categorize_problem: the value it returns
    summary_file,    \* analyze_session: the summary path, [exists, text]
    learning_report, \* analyze_session: the report path, [given, exists, text]; given = FALSE is None
    learnings,       \* the list of session records given to extract_patterns
    patterns,        \* extract_patterns: the dict it builds and returns
    md,              \* generate_knowledge_base_update: the document, piece by piece
    fs,              \* the file system under the root: [dirs, files], sets of paths
    summary_files,   \* main: the list of summary paths found
    session_dirs,    \* main: the list of session directories found
    idx              \* main: how many summaries the analysis loop has taken

sectionVars == <<content, section>>
classifyVars == <<learning, category>>
analyzeVars == <<summary_file, learning_report>>
aggregateVars == <<learnings, patterns, md>>
locateVars == <<fs, summary_files, session_dirs, idx>>
vars == <<pc, sectionVars, classifyVars, analyzeVars, aggregateVars, locateVars>>

\* what each part of the program leaves alone
outsideSection == <<classifyVars, analyzeVars, aggregateVars, locateVars>>
outsideClassify == <<sectionVars, analyzeVars, aggregateVars, locateVars>>
outsideAnalyze == <<sectionVars, category, aggregateVars, locateVars>>
outsideAggregate == <<sectionVars, classifyVars, analyzeVars, locateVars>>
outsideMain == <<sectionVars, category>>

None == <<"None">>

\* the values of the variables a part of the program does not use
NoFile == [given |-> FALSE, exists |-> FALSE, text |-> <<>>]
IdleSection == content = <<>> /\ section = None
IdleClassify == learning = None /\ category = None
IdleAnalyze == summary_file = NoFile /\ learning_report = NoFile
IdleAggregate == learnings = <<>> /\ patterns = None /\ md = <<>>
IdleLocate ==
    fs = [dirs |-> {}, files |-> {}] /\ summary_files = <<>> /\ session_dirs = <<>> /\ idx = 0

-----------------------------------------------------------------------------
(* Python str primitives *)

Whitespace == {" ", "\n", "\t"}

Min(S) == CHOOSE x \in S : \A y \in S : x <= y
Max(S) == CHOOSE x \in S : \A y \in S : x >= y

\* s[p:].startswith(w), p a 1-based position
StartsWithAt(s, p, w) ==
    /\ p >= 1
    /\ p + Len(w) - 1 <= Len(s)
    /\ \A j \in 1..Len(w) : s[p + j - 1] = w[j]

\* w in s
Contains(s, w) == \E p \in 1..(Len(s) - Len(w) + 1) : StartsWithAt(s, p, w)

RECURSIVE RunFrom(_, _, _)
\* the length of the longest run of characters of `chars` that starts at position p
RunFrom(s, p, chars) ==
    IF p > Len(s) \/ s[p] \notin chars THEN 0 ELSE 1 + RunFrom(s, p + 1, chars)

RECURSIVE RunBefore(_, _, _)
\* the length of the longest run of characters of `chars` that ends at position p
RunBefore(s, p, chars) ==
    IF p < 1 \/ s[p] \notin chars THEN 0 ELSE 1 + RunBefore(s, p - 1, chars)

\* the length of the longest run of whitespace that starts at position p (what a greedy \s* takes)
WsRun(s, p) == RunFrom(s, p, Whitespace)

\* s.strip(chars)
StripChars(s, chars) ==
    LET lead == RunFrom(s, 1, chars)
    IN  IF lead = Len(s) THEN <<>>
        ELSE SubSeq(s, lead + 1, Len(s) - RunBefore(s, Len(s), chars))

\* s.strip()
Strip(s) == StripChars(s, Whitespace)

RECURSIVE Join(_, _)
\* sep.join(parts)
Join(parts, sep) ==
    IF parts = <<>> THEN <<>>
    ELSE IF Len(parts) = 1 THEN parts[1]
    ELSE parts[1] \o sep \o Join(Tail(parts), sep)

RECURSIVE SplitOn(_, _)
\* s.split(c) for a single character c
SplitOn(s, c) ==
    LET hits == {i \in 1..Len(s) : s[i] = c}
    IN  IF hits = {} THEN <<s>>
        ELSE <<SubSeq(s, 1, Min(hits) - 1)>> \o SplitOn(SubSeq(s, Min(hits) + 1, Len(s)), c)

-----------------------------------------------------------------------------
(* _extract_section: re.search(r'##\s+NAME\s*\n(.+?)(?=\n##|\Z)', content, re.DOTALL) *)

LookaheadHeading == <<"\n","#","#">>

\* where group 1 may start once NAME has ended at p - 1: \s* then \n, with at least one
\* character left for (.+?)
GroupStarts(text, p) ==
    {p + m + 1 : m \in {m \in 0..WsRun(text, p) :
                          /\ p + m + 1 <= Len(text)
                          /\ text[p + m] = "\n"}}

\* the lengths \s+ may take after a "##" at i for the rest of the pattern to match
HeadingGaps(text, name, i) ==
    {k \in 1..WsRun(text, i + 2) :
        /\ StartsWithAt(text, i + 2 + k, name)
        /\ GroupStarts(text, i + 2 + k + Len(name)) # {}}

\* the positions at which the pattern matches
MatchStarts(text, name) ==
    {i \in 1..Len(text) : StartsWithAt(text, i, <<"#","#">>) /\ HeadingGaps(text, name, i) # {}}

\* group 1 of the leftmost match: \s+ and \s* greedy, (.+?) lazy up to "\n##" or the end
MatchGroup(text, name) ==
    LET i == Min(MatchStarts(text, name))
        k == Max(HeadingGaps(text, name, i))
        q == Max(GroupStarts(text, i + 2 + k + Len(name)))
        e == Min({e \in (q + 1)..(Len(text) + 1) :
                    e = Len(text) + 1 \/ StartsWithAt(text, e, LookaheadHeading)})
    IN  SubSeq(text, q, e - 1)

_extract_section(text, section_name) ==
    IF MatchStarts(text, section_name) # {}
    THEN Strip(MatchGroup(text, section_name))
    ELSE None

-----------------------------------------------------------------------------
(* Section extraction on its own: the report text is drawn from the documents    *)
(* of at most MaxLines lines and _extract_section(content, 'Root Cause') is run. *)

MaxLines == 4

RootCause == <<"R","o","o","t"," ","C","a","u","s","e">>

ReportLines ==
    { <<"#","#"," ","R","o","o","t"," ","C","a","u","s","e">>,
      <<"#","#"," ","S","o","l","u","t","i","o","n">>,
      <<"#","#","#"," ","D","e","t","a","i","l">>,
      <<>>,
      <<"o","o","m">>,
      <<" ","f","i","x"," ">> }

ReportTexts ==
    {Join(ls, <<"\n">>) : ls \in UNION {[1..n -> ReportLines] : n \in 1..MaxLines}}


InitSection ==
    /\ pc = "extract_section"
    /\ content \in ReportTexts
    /\ section = None
    /\ IdleClassify
    /\ IdleAnalyze
    /\ IdleAggregate
    /\ IdleLocate

ExtractSection ==
    /\ pc = "extract_section"
    /\ section' = _extract_section(content, RootCause)
    /\ pc' = "section_done"
    /\ UNCHANGED <<content, outsideSection>>

NextSection == ExtractSection

SpecSection == InitSection /\ [][NextSection]_vars

\* The section body as the report format defines it: the lines after the first
\* `## Root Cause` heading line up to the next second-level heading line, trimmed.
IsSecondLevelHeading(line) == StartsWithAt(line, 1, <<"#","#"," ">>)
IsRootCauseHeading(line) == Strip(line) = <<"#","#"," ">> \o RootCause
HeadingLines(text) ==
    {h \in 1..Len(SplitOn(text, "\n")) : IsRootCauseHeading(SplitOn(text, "\n")[h])}
FollowingHeadings(text) ==
    {n \in 1..Len(SplitOn(text, "\n")) :
        /\ HeadingLines(text) # {}
        /\ n > Min(HeadingLines(text))
        /\ IsSecondLevelHeading(SplitOn(text, "\n")[n])}
RootCauseFollowed(text) == FollowingHeadings(text) # {}
BodyBetweenHeadings(text) ==
    LET h == Min(HeadingLines(text))
        n == Min(FollowingHeadings(text))
    IN  Strip(Join(SubSeq(SplitOn(text, "\n"), h + 1, n - 1), <<"\n">>))

\* C1: whenever the report holds a `## Root Cause` heading followed later by another
\* second-level heading, _extract_section returns exactly the trimmed text between the
\* heading line and that next second-level heading (empty bodies and bodies with deeper
\* headings included), so nothing of the following section.
C1_BodyBetweenHeadings ==
    (pc = "section_done" /\ RootCauseFollowed(content))
        => section = BodyBetweenHeadings(content)

\* The two shapes on which the code departs from C1.
C1_EmptyBodyTakesNextSection ==
    (pc = "section_done"
        /\ content = <<"#","#"," ","R","o","o","t"," ","C","a","u","s","e","\n",
                       "#","#"," ","S","o","l","u","t","i","o","n","\n","o","o","m">>)
        => section = <<"#","#"," ","S","o","l","u","t","i","o","n","\n","o","o","m">>
C1_DeeperHeadingCutsBody ==
    (pc = "section_done"
        /\ content = <<"#","#"," ","R","o","o","t"," ","C","a","u","s","e","\n","o","o","m","\n",
                       "#","#","#"," ","D","e","t","a","i","l","\n"," ","f","i","x"," ","\n",
                       "#","#"," ","S","o","l","u","t","i","o","n">>)
        => section = <<"o","o","m">>

-----------------------------------------------------------------------------
(* The session record and _categorize_problem *)

\* analyze_session's initial record
NewLearning ==
    [date |-> None, jira_ticket |-> None, problem_description |-> None,
     investigation |-> None, root_cause |-> None, solution |-> None,
     resources_modified |-> <<>>, key_learnings |-> <<>>, prevention |-> None,
     namespaces |-> <<>>]

UpperCase == <<"A","B","C","D","E","F","G","H","I","J","K","L","M",
               "N","O","P","Q","R","S","T","U","V","W","X","Y","Z">>
LowerCase == <<"a","b","c","d","e","f","g","h","i","j","k","l","m",
               "n","o","p","q","r","s","t","u","v","w","x","y","z">>

\* s.lower()
Lower(s) ==
    [i \in 1..Len(s) |->
        IF \E u \in 1..26 : UpperCase[u] = s[i]
        THEN LowerCase[CHOOSE u \in 1..26 : UpperCase[u] = s[i]]
        ELSE s[i]]

\* (x or '')
OrEmpty(x) == IF x = None THEN <<>> ELSE x

\* problem_desc + root_cause with nothing between: what the text would be without the ' '
CombinedWithoutSpace(l) ==
    Lower(OrEmpty(l.problem_description)) \o Lower(OrEmpty(l.root_cause))

\* combined = problem_desc + ' ' + root_cause
Combined(l) ==
    Lower(OrEmpty(l.problem_description)) \o <<" ">> \o Lower(OrEmpty(l.root_cause))

MatchesCrash(combined) ==
    Contains(combined, <<"c","r","a","s","h","l","o","o","p">>) \/ Contains(combined, <<"c","r","a","s","h">>)

\* the first test taken only after the crash test has failed, as if the first two arms were swapped
MatchesOOMAfterCrash(combined) ==
    /\ Contains(combined, <<"o","o","m">>) \/ Contains(combined, <<"o","u","t"," ","o","f"," ","m","e","m","o","r","y">>) \/ Contains(combined, <<"m","e","m","o","r","y"," ","l","i","m","i","t">>)
    /\ ~MatchesCrash(combined)

MatchesOOM(combined) ==
    Contains(combined, <<"o","o","m">>) \/ Contains(combined, <<"o","u","t"," ","o","f"," ","m","e","m","o","r","y">>) \/ Contains(combined, <<"m","e","m","o","r","y"," ","l","i","m","i","t">>)

MatchesImagePull(combined) ==
    Contains(combined, <<"i","m","a","g","e">>) /\ (Contains(combined, <<"p","u","l","l">>) \/ Contains(combined, <<"n","o","t"," ","f","o","u","n","d">>))

MatchesScheduling(combined) ==
    Contains(combined, <<"p","e","n","d","i","n","g">>) \/ Contains(combined, <<"s","c","h","e","d","u","l","i","n","g">>)

MatchesNetwork(combined) ==
    Contains(combined, <<"n","e","t","w","o","r","k">>) \/ Contains(combined, <<"d","n","s">>) \/ Contains(combined, <<"c","o","n","n","e","c","t","i","o","n">>)

MatchesArgoCD(combined) ==
    Contains(combined, <<"a","r","g","o","c","d">>) \/ Contains(combined, <<"s","y","n","c">>)

MatchesTekton(combined) ==
    Contains(combined, <<"t","e","k","t","o","n">>) \/ Contains(combined, <<"p","i","p","e","l","i","n","e">>)

MatchesCrossplane(combined) ==
    Contains(combined, <<"c","r","o","s","s","p","l","a","n","e">>)

MatchesStorage(combined) ==
    Contains(combined, <<"s","t","o","r","a","g","e">>) \/ Contains(combined, <<"p","v","c">>) \/ Contains(combined, <<"v","o","l","u","m","e">>)

MatchesRBAC(combined) ==
    Contains(combined, <<"p","e","r","m","i","s","s","i","o","n">>) \/ Contains(combined, <<"r","b","a","c">>) \/ Contains(combined, <<"f","o","r","b","i","d","d","e","n">>)

_categorize_problem(l) ==
    LET combined == Combined(l)
    IN  IF MatchesOOM(combined) THEN "Memory / OOM Issues"
        ELSE IF MatchesCrash(combined) THEN "Pod CrashLoopBackOff"
        ELSE IF MatchesImagePull(combined) THEN "Image Pull Errors"
        ELSE IF MatchesScheduling(combined) THEN "Pod Scheduling Issues"
        ELSE IF MatchesNetwork(combined) THEN "Network / DNS Issues"
        ELSE IF MatchesArgoCD(combined) THEN "ArgoCD Sync Issues"
        ELSE IF MatchesTekton(combined) THEN "Tekton Pipeline Issues"
        ELSE IF MatchesCrossplane(combined) THEN "Crossplane Issues"
        ELSE IF MatchesStorage(combined) THEN "Storage / PVC Issues"
        ELSE IF MatchesRBAC(combined) THEN "RBAC / Permission Issues"
        ELSE "Configuration Issues"

-----------------------------------------------------------------------------
(* Classification on its own: a record whose two text fields are drawn from *)
(* FieldTexts is classified.                                                *)

FieldTexts ==
    { None,
      <<>>,
      <<"O","O","M","K","i","l","l","e","d">>,
      <<"o","u","t"," ","o","f">>,
      <<"m","e","m","o","r","y">>,
      <<"o","u","t"," ","o","f","m","e","m","o","r","y">>,
      <<"o","u","t"," ","o","f"," ","m","e","m","o","r","y">>,
      <<"l","e","a","k">>,
      <<"m","e","m","o","r","y"," ","l","e","a","k">>,
      <<"C","r","a","s","h","L","o","o","p">>,
      <<"i","m","a","g","e">>,
      <<"p","u","l","l">>,
      <<"p","e","n","d","i","n","g">>,
      <<"D","N","S">>,
      <<"s","y","n","c">>,
      <<"p","i","p","e","l","i","n","e">>,
      <<"c","r","o","s","s","p","l","a","n","e">>,
      <<"p","v","c">>,
      <<"f","o","r","b","i","d","d","e","n">> }

ClassifyInputs ==
    {[NewLearning EXCEPT !.problem_description = pd, !.root_cause = rc] :
        pd \in FieldTexts, rc \in FieldTexts}

InitClassify ==
    /\ pc = "categorize"
    /\ learning \in ClassifyInputs
    /\ category = None
    /\ IdleSection
    /\ IdleAnalyze
    /\ IdleAggregate
    /\ IdleLocate

Categorize ==
    /\ pc = "categorize"
    /\ category' = _categorize_problem(learning)
    /\ pc' = "classified"
    /\ UNCHANGED <<learning, outsideClassify>>

NextClassify == Categorize

SpecClassify == InitClassify /\ [][NextClassify]_vars

\* The rule table of the classifier as the design states it: rule i holds on a text when,
\* for one of its alternatives, every keyword of the alternative occurs in the text.
RuleTable ==
    << [category |-> "Memory / OOM Issues",
        anyOf |-> {{<<"o","o","m">>}, {<<"o","u","t"," ","o","f"," ","m","e","m","o","r","y">>}, {<<"m","e","m","o","r","y"," ","l","i","m","i","t">>}}],
       [category |-> "Pod CrashLoopBackOff",
        anyOf |-> {{<<"c","r","a","s","h","l","o","o","p">>}, {<<"c","r","a","s","h">>}}],
       [category |-> "Image Pull Errors",
        anyOf |-> {{<<"i","m","a","g","e">>, <<"p","u","l","l">>}, {<<"i","m","a","g","e">>, <<"n","o","t"," ","f","o","u","n","d">>}}],
       [category |-> "Pod Scheduling Issues",
        anyOf |-> {{<<"p","e","n","d","i","n","g">>}, {<<"s","c","h","e","d","u","l","i","n","g">>}}],
       [category |-> "Network / DNS Issues",
        anyOf |-> {{<<"n","e","t","w","o","r","k">>}, {<<"d","n","s">>}, {<<"c","o","n","n","e","c","t","i","o","n">>}}],
       [category |-> "ArgoCD Sync Issues",
        anyOf |-> {{<<"a","r","g","o","c","d">>}, {<<"s","y","n","c">>}}],
       [category |-> "Tekton Pipeline Issues",
        anyOf |-> {{<<"t","e","k","t","o","n">>}, {<<"p","i","p","e","l","i","n","e">>}}],
       [category |-> "Crossplane Issues",
        anyOf |-> {{<<"c","r","o","s","s","p","l","a","n","e">>}}],
       [category |-> "Storage / PVC Issues",
        anyOf |-> {{<<"s","t","o","r","a","g","e">>}, {<<"p","v","c">>}, {<<"v","o","l","u","m","e">>}}],
       [category |-> "RBAC / Permission Issues",
        anyOf |-> {{<<"p","e","r","m","i","s","s","i","o","n">>}, {<<"r","b","a","c">>}, {<<"f","o","r","b","i","d","d","e","n">>}}] >>
DefaultCategory == "Configuration Issues"
RuleHolds(i, text) ==
    \E alt \in RuleTable[i].anyOf : \A w \in alt : Contains(text, w)
\* the lower-cased text of a record: the two fields, unset as empty, joined by one space
SpaceJoinedText(l) ==
    Lower(OrEmpty(l.problem_description) \o <<" ">> \o OrEmpty(l.root_cause))
\* the lower-cased text of a record with the two fields put end to end
DirectText(l) ==
    Lower(OrEmpty(l.problem_description) \o OrEmpty(l.root_cause))

\* C2: _categorize_problem is total and first-match-wins: the category returned is that
\* of the lowest-numbered rule of the fixed order whose keyword predicate holds on the
\* lower-cased text, and the default category exactly when no rule holds; a record with
\* both fields unset gets the default, and text with both "oom" and "crashloop" is
\* Memory / OOM Issues.
C2_FirstMatchWins ==
    pc = "classified" =>
        LET text == SpaceJoinedText(learning)
        IN  /\ category \in {RuleTable[i].category : i \in 1..10} \cup {DefaultCategory}
            /\ \A i \in 1..10 :
                 (category = RuleTable[i].category)
                    <=> (RuleHolds(i, text) /\ \A j \in 1..(i - 1) : ~RuleHolds(j, text))
            /\ (category = DefaultCategory) <=> (\A i \in 1..10 : ~RuleHolds(i, text))
            /\ (learning.problem_description = None /\ learning.root_cause = None)
                    => category = DefaultCategory
            /\ (Contains(text, <<"o","o","m">>) /\ Contains(text, <<"c","r","a","s","h","l","o","o","p">>))
                    => category = "Memory / OOM Issues"

\* C2 witness: a record whose text holds both "oom" and "crashloop" has been classified.
C2_Witness ==
    /\ pc = "classified"
    /\ learning.problem_description = <<"C","r","a","s","h","L","o","o","p">>
    /\ learning.root_cause = <<"O","O","M","K","i","l","l","e","d">>
    /\ category = "Memory / OOM Issues"

\* C3 as stated: the category depends only on the lower-cased direct concatenation
\* problem_description ++ root_cause, so any record whose direct concatenation equals
\* that of the classified record has the same category.
C3_DirectConcatenationDecides ==
    pc = "classified" =>
        \A r \in ClassifyInputs :
            DirectText(r) = DirectText(learning) => _categorize_problem(r) = category

\* C3 amended: the category depends only on the lower-cased text problem_description ++
\* " " ++ root_cause (unset as empty): any two records whose space-joined texts are equal
\* have the same category.
C3_SpaceJoinedTextDecides ==
    pc = "classified" =>
        \A r \in ClassifyInputs :
            SpaceJoinedText(r) = SpaceJoinedText(learning) => _categorize_problem(r) = category

\* C3 witness: ("out of", "memory leak") has been classified, and another record,
\* ("out of memory", "leak"), has the same space-joined text.
C3_Witness ==
    /\ pc = "classified"
    /\ learning.problem_description = <<"o","u","t"," ","o","f">>
    /\ learning.root_cause = <<"m","e","m","o","r","y"," ","l","e","a","k">>
    /\ category = "Memory / OOM Issues"
    /\ \E r \in ClassifyInputs :
         r # learning /\ SpaceJoinedText(r) = SpaceJoinedText(learning)

-----------------------------------------------------------------------------
(* analyze_session *)

\* re.search(LABEL + r'\s+(.+)', content): where group 1 may start once LABEL has
\* ended at p - 1: \s+ then a character that is not a newline
ValueStarts(text, p) ==
    {p + k : k \in {k \in 1..WsRun(text, p) :
                      /\ p + k <= Len(text)
                      /\ text[p + k] # "\n"}}

LabelStarts(text, label) ==
    {i \in 1..Len(text) :
        StartsWithAt(text, i, label) /\ ValueStarts(text, i + Len(label)) # {}}

\* group 1 of the leftmost match: \s+ greedy, (.+) greedy to the end of the line
LabelGroup(text, label) ==
    LET i == Min(LabelStarts(text, label))
        q == Max(ValueStarts(text, i + Len(label)))
        e == Min({e \in (q + 1)..(Len(text) + 1) : e = Len(text) + 1 \/ text[e] = "\n"})
    IN  SubSeq(text, q, e - 1)

\* match.group(1) of re.search, None when there is no match
SearchLabel(text, label) ==
    IF LabelStarts(text, label) # {} THEN LabelGroup(text, label) ELSE None

RECURSIVE SplitWhitespace(_)
\* s.split()
SplitWhitespace(s) ==
    LET a == WsRun(s, 1) + 1
    IN  IF a > Len(s) THEN <<>>
        ELSE LET b == Min({j \in a..Len(s) : j = Len(s) \/ s[j + 1] \in Whitespace})
             IN  <<SubSeq(s, a, b)>> \o SplitWhitespace(SubSeq(s, b + 1, Len(s)))

IsBulletLine(line) == StartsWithAt(Strip(line), 1, <<"-">>)

\* [line.strip('- ').strip() for line in section.split('\n') if line.strip().startswith('-')]
BulletItems(text) ==
    LET kept == SelectSeq(SplitOn(text, "\n"), IsBulletLine)
    IN  [i \in 1..Len(kept) |-> Strip(StripChars(kept[i], {"-", " "}))]

DateLabel == <<"D","a","t","e",":">>
JiraTicketLabel == <<"J","i","r","a"," ","T","i","c","k","e","t",":">>
NamespacesLabel == <<"A","f","f","e","c","t","e","d"," ","N","a","m","e","s","p","a","c","e","s",":">>
ProblemDescription == <<"P","r","o","b","l","e","m"," ","D","e","s","c","r","i","p","t","i","o","n">>
Investigation == <<"I","n","v","e","s","t","i","g","a","t","i","o","n">>
Solution == <<"S","o","l","u","t","i","o","n">>
Prevention == <<"P","r","e","v","e","n","t","i","o","n">>
ResourcesModified == <<"R","e","s","o","u","r","c","e","s"," ","M","o","d","i","f","i","e","d">>
KeyLearnings == <<"K","e","y"," ","L","e","a","r","n","i","n","g","s">>

\* `if summary_file.exists():`
SummaryRead(f) == f.exists

\* the report is opened whenever a path was given, whether or not it exists
ReportReadUnchecked(r) == r.given

\* `if learning_report and learning_report.exists():`
ReportRead(r) == r.given /\ r.exists

\* open(path) raises FileNotFoundError when the path does not exist
OpenRaises(f) == ~f.exists

\* `if resources_section:` / `if learnings_section:`
BulletsTaken(sec) == sec # None /\ sec # <<>>

\* None has no split: AttributeError
SplitRaises(sec) == sec = None

AnalyzeRaises(f, r) ==
    \/ SummaryRead(f) /\ OpenRaises(f)
    \/ ReportRead(r) /\ OpenRaises(r)
    \/ /\ ReportRead(r)
       /\ \E name \in {ResourcesModified, KeyLearnings} :
            /\ BulletsTaken(_extract_section(r.text, name))
            /\ SplitRaises(_extract_section(r.text, name))

\* lines 38-48
WithSummary(l, f) ==
    IF SummaryRead(f)
    THEN LET date == SearchLabel(f.text, DateLabel)
             ticket == SearchLabel(f.text, JiraTicketLabel)
             namespaces == SearchLabel(f.text, NamespacesLabel)
         IN  [l EXCEPT !.date = IF date # None THEN Strip(date) ELSE @,
                       !.jira_ticket = IF ticket # None THEN Strip(ticket) ELSE @,
                       !.namespaces = IF namespaces # None
                                      THEN SplitWhitespace(Strip(namespaces)) ELSE @]
    ELSE l

\* lines 51-78
WithReport(l, r) ==
    IF ReportRead(r)
    THEN LET resources_section == _extract_section(r.text, ResourcesModified)
             learnings_section == _extract_section(r.text, KeyLearnings)
         IN  [l EXCEPT !.problem_description = _extract_section(r.text, ProblemDescription),
                       !.investigation = _extract_section(r.text, Investigation),
                       !.root_cause = _extract_section(r.text, RootCause),
                       !.solution = _extract_section(r.text, Solution),
                       !.prevention = _extract_section(r.text, Prevention),
                       !.resources_modified = IF BulletsTaken(resources_section)
                                              THEN BulletItems(resources_section) ELSE @,
                       !.key_learnings = IF BulletsTaken(learnings_section)
                                         THEN BulletItems(learnings_section) ELSE @]
    ELSE l

analyze_session(f, r) == WithReport(WithSummary(NewLearning, f), r)

-----------------------------------------------------------------------------
(* The parser on its own: the summary holds any of the three metadata lines, each *)
(* with a value or blank, or is missing; the report is not given, does not exist, *)
(* or holds any subset of the seven sections.                                     *)

LineChoices == {"absent", "blank", "value"}

MetadataLine(label, value, c) ==
    IF c = "absent" THEN <<>>
    ELSE IF c = "blank" THEN label \o <<"\n">>
    ELSE label \o <<" ">> \o value \o <<"\n">>

SummaryText(d, j, n) ==
    <<"S","e","s","s","i","o","n"," ","S","u","m","m","a","r","y">> \o <<"\n">>
    \o MetadataLine(DateLabel, <<"2","0","2","4","-","0","1","-","0","1">>, d)
    \o MetadataLine(JiraTicketLabel, <<"P","R","O","J","-","1">>, j)
    \o MetadataLine(NamespacesLabel, <<"n","s","-","a"," ","n","s","-","b">>, n)

SummaryFiles ==
    {[given |-> TRUE, exists |-> FALSE, text |-> <<>>]}
    \cup {[given |-> TRUE, exists |-> TRUE, text |-> SummaryText(d, j, n)] :
            d \in LineChoices, j \in LineChoices, n \in LineChoices}

SectionText(name, body, c) ==
    IF c = "absent" THEN <<>>
    ELSE IF c = "empty" THEN <<"#","#"," ">> \o name \o <<"\n","\n">>
    ELSE <<"#","#"," ">> \o name \o <<"\n">> \o body \o <<"\n","\n">>

\* which sections a report holds: each "absent" or "filled", Investigation also "empty"
SectionChoices ==
    [problem : {"absent", "filled"}, investigation : {"absent", "filled", "empty"},
     root_cause : {"absent", "filled"}, solution : {"absent", "filled"},
     resources : {"absent", "filled"}, learnings : {"absent", "filled"},
     prevention : {"absent", "filled"}]

ReportText(c) ==
    <<"#"," ","R","e","p","o","r","t">> \o <<"\n","\n">>
    \o SectionText(ProblemDescription, <<"P","o","d"," ","O","O","M","K","i","l","l","e","d">>, c.problem)
    \o SectionText(Investigation, <<"c","h","e","c","k","e","d"," ","l","o","g","s">>, c.investigation)
    \o SectionText(RootCause, <<"m","e","m","o","r","y"," ","l","i","m","i","t">>, c.root_cause)
    \o SectionText(Solution, <<"r","a","i","s","e","d"," ","l","i","m","i","t">>, c.solution)
    \o SectionText(ResourcesModified, <<"-"," ","d","e","p","l","o","y","m","e","n","t","/","a","p","i","\n","n","o","t","e","\n"," "," ","-"," ","-","-","d","r","y","-","r","u","n"," ","f","l","a","g">>, c.resources)
    \o SectionText(KeyLearnings, <<"-"," ","r","e","t","r","y"," ","-","\n","-"," ","c","h","e","c","k"," ","l","i","m","i","t","s">>, c.learnings)
    \o SectionText(Prevention, <<"s","e","t"," ","a","l","e","r","t","s">>, c.prevention)

ReportFiles ==
    {NoFile, [given |-> TRUE, exists |-> FALSE, text |-> <<>>]}
    \cup {[given |-> TRUE, exists |-> TRUE, text |-> ReportText(c)] : c \in SectionChoices}

InitAnalyze ==
    /\ pc = "analyze_session"
    /\ summary_file \in SummaryFiles
    /\ learning_report \in ReportFiles
    /\ learning = None
    /\ category = None
    /\ IdleSection
    /\ IdleAggregate
    /\ IdleLocate

Analyze ==
    /\ pc = "analyze_session"
    /\ IF AnalyzeRaises(summary_file, learning_report)
       THEN pc' = "raised" /\ UNCHANGED learning
       ELSE pc' = "returned" /\ learning' = analyze_session(summary_file, learning_report)
    /\ UNCHANGED <<analyzeVars, outsideAnalyze>>

NextAnalyze == Analyze

SpecAnalyze == InitAnalyze /\ [][NextAnalyze]_vars

\* What the files hold, read off their text: a metadata label, a heading line of a section.
SummaryHas(label) == summary_file.exists /\ Contains(summary_file.text, label)
RECURSIVE LineEnd(_, _)
LineEnd(text, i) == IF i > Len(text) \/ text[i] = "\n" THEN i - 1 ELSE LineEnd(text, i + 1)
HasHeadingLine(text, name) ==
    \E i \in 1..Len(text) :
        /\ i = 1 \/ text[i - 1] = "\n"
        /\ StartsWithAt(text, i, <<"#","#">>)
        /\ Contains(SubSeq(text, i, LineEnd(text, i)), name)
ReportHas(name) ==
    /\ learning_report.given
    /\ learning_report.exists
    /\ HasHeadingLine(learning_report.text, name)
RecordFields ==
    {"date", "jira_ticket", "problem_description", "investigation", "root_cause",
     "solution", "resources_modified", "key_learnings", "prevention", "namespaces"}

\* C4: analyze_session never raises and returns a record with all ten fields, whatever
\* the summary (missing, or present with any of the metadata lines) and the report (not
\* given, nonexistent, or present with any of the sections) are; a scalar field whose
\* metadata line or section is missing is None and a list field whose source is missing
\* is the empty list.
C4_NeverFailsAndDefaults ==
    /\ pc # "raised"
    /\ pc = "returned" =>
        /\ DOMAIN learning = RecordFields
        /\ ~SummaryHas(DateLabel) => learning.date = None
        /\ ~SummaryHas(JiraTicketLabel) => learning.jira_ticket = None
        /\ ~SummaryHas(NamespacesLabel) => learning.namespaces = <<>>
        /\ ~ReportHas(ProblemDescription) => learning.problem_description = None
        /\ ~ReportHas(Investigation) => learning.investigation = None
        /\ ~ReportHas(RootCause) => learning.root_cause = None
        /\ ~ReportHas(Solution) => learning.solution = None
        /\ ~ReportHas(Prevention) => learning.prevention = None
        /\ ~ReportHas(ResourcesModified) => learning.resources_modified = <<>>
        /\ ~ReportHas(KeyLearnings) => learning.key_learnings = <<>>

\* C4 witness: a record has been returned for a summary without a Date line and a report
\* with a Root Cause section but without the Prevention and Key Learnings sections.
C4_Witness ==
    /\ pc = "returned"
    /\ summary_file.exists
    /\ ~SummaryHas(DateLabel)
    /\ SummaryHas(JiraTicketLabel)
    /\ ReportHas(RootCause)
    /\ ~ReportHas(Prevention)
    /\ ~ReportHas(KeyLearnings)
    /\ learning.date = None
    /\ learning.jira_ticket = <<"P","R","O","J","-","1">>
    /\ learning.root_cause = <<"m","e","m","o","r","y"," ","l","i","m","i","t">>
    /\ learning.prevention = None
    /\ learning.key_learnings = <<>>

-----------------------------------------------------------------------------
(* extract_patterns *)

\* A Python dict is the sequence of its [key, value] items in insertion order.
HasKey(d, key) == \E i \in 1..Len(d) : d[i].key = key
KeyIndex(d, key) == CHOOSE i \in 1..Len(d) : d[i].key = key
Keys(d) == {d[i].key : i \in 1..Len(d)}
Lookup(d, key) == d[KeyIndex(d, key)].value

\* defaultdict(list): d[key].append(item) with the item put at the front of the list
PrependTo(d, key, item) ==
    IF HasKey(d, key)
    THEN [d EXCEPT ![KeyIndex(d, key)].value = <<item>> \o @]
    ELSE Append(d, [key |-> key, value |-> <<item>>])

\* defaultdict(list): d[key].append(item)
AppendTo(d, key, item) ==
    IF HasKey(d, key)
    THEN [d EXCEPT ![KeyIndex(d, key)].value = Append(@, item)]
    ELSE Append(d, [key |-> key, value |-> <<item>>])

\* defaultdict(int): d[key] += 1
Increment(d, key) ==
    IF HasKey(d, key)
    THEN [d EXCEPT ![KeyIndex(d, key)].value = @ + 1]
    ELSE Append(d, [key |-> key, value |-> 1])

RECURSIVE CountOncePerRecord(_, _)
\* each namespace of a record counted once however often the record names it
CountOncePerRecord(d, namespaces) ==
    IF namespaces = <<>> THEN d
    ELSE CountOncePerRecord(
            IF \E i \in 2..Len(namespaces) : namespaces[i] = namespaces[1]
            THEN d ELSE Increment(d, namespaces[1]),
            Tail(namespaces))

RECURSIVE CountNamespaces(_, _)
\* for ns in learning.get('namespaces', []): patterns['namespace_patterns'][ns] += 1
CountNamespaces(d, namespaces) ==
    IF namespaces = <<>> THEN d
    ELSE CountNamespaces(Increment(d, namespaces[1]), Tail(namespaces))

EmptyPatterns ==
    [problem_categories |-> <<>>, namespace_patterns |-> <<>>, all_learnings |-> <<>>]

\* one pass of the loop body, lines 129-140
AddLearning(p, l) ==
    [problem_categories |-> AppendTo(p.problem_categories, _categorize_problem(l), l),
     namespace_patterns |-> CountNamespaces(p.namespace_patterns, l.namespaces),
     all_learnings |-> p.all_learnings \o l.key_learnings]

RECURSIVE AddLearnings(_, _)
AddLearnings(p, ls) ==
    IF ls = <<>> THEN p ELSE AddLearnings(AddLearning(p, ls[1]), Tail(ls))

extract_patterns(ls) == AddLearnings(EmptyPatterns, ls)

-----------------------------------------------------------------------------
(* generate_knowledge_base_update: the document is the sequence of the pieces the *)
(* code appends to md, each piece a tag for the template text and the values put  *)
(* into it. The timestamp of the header is not kept.                              *)

ProblemBudget == 200
RootCauseBudget == 150
SolutionBudget == 150
ResourcesShown == 3
NamespacesShown == 10
LearningsShown == 20

\* s[:n]
Prefix(s, n) == SubSeq(s, 1, IF Len(s) < n THEN Len(s) ELSE n)

\* Python truthiness of an optional str or a list
Truthy(x) == x # None /\ x # <<>>

\* the items of a dict with the sort key of each: the length of its list, or its count
ByListLength(d) == [i \in 1..Len(d) |-> [item |-> d[i], k |-> Len(d[i].value)]]
ByCount(d) == [i \in 1..Len(d) |-> [item |-> d[i], k |-> d[i].value]]
Items(keyed) == [i \in 1..Len(keyed) |-> keyed[i].item]

RECURSIVE InsertAscending(_, _)
InsertAscending(sorted, e) ==
    IF sorted = <<>> THEN <<e>>
    ELSE IF sorted[1].k <= e.k
         THEN <<sorted[1]>> \o InsertAscending(Tail(sorted), e)
         ELSE <<e>> \o sorted

RECURSIVE SortedAscending(_)
SortedAscending(keyed) ==
    IF keyed = <<>> THEN <<>>
    ELSE InsertAscending(SortedAscending(SubSeq(keyed, 1, Len(keyed) - 1)), keyed[Len(keyed)])

\* sorted(items, key=...)[::-1]: descending, but items with equal keys come out reversed
SortedThenReversed(keyed) ==
    LET asc == SortedAscending(keyed)
    IN  [i \in 1..Len(asc) |-> asc[Len(asc) + 1 - i]]

RECURSIVE InsertDescending(_, _)
\* put e after every item whose key is at least its own
InsertDescending(sorted, e) ==
    IF sorted = <<>> THEN <<e>>
    ELSE IF sorted[1].k >= e.k
         THEN <<sorted[1]>> \o InsertDescending(Tail(sorted), e)
         ELSE <<e>> \o sorted

RECURSIVE SortedDescending(_)
\* sorted(items, key=..., reverse=True): stable, items with equal keys keep their order
SortedDescending(keyed) ==
    IF keyed = <<>> THEN <<>>
    ELSE InsertDescending(SortedDescending(SubSeq(keyed, 1, Len(keyed) - 1)), keyed[Len(keyed)])

\* the ellipsis appended from the budget on, not only past it
RenderFieldEllipsisAtBudget(tag, text, budget) ==
    <<[tag |-> tag, text |-> Prefix(text, budget)]>>
    \o (IF Len(text) >= budget THEN <<[tag |-> "ellipsis"]>> ELSE <<>>)
    \o <<[tag |-> "break"]>>

\* md += f"**Label:** {text[:budget]}"; if len(text) > budget: md += "..."; md += "\n\n"
RenderField(tag, text, budget) ==
    <<[tag |-> tag, text |-> Prefix(text, budget)]>>
    \o (IF Len(text) > budget THEN <<[tag |-> "ellipsis"]>> ELSE <<>>)
    \o <<[tag |-> "break"]>>

\* lines 164-198: the sub-block of one record
RenderLearning(l) ==
    (IF Truthy(l.jira_ticket) /\ l.jira_ticket # <<"N","o","t"," ","s","p","e","c","i","f","i","e","d">>
     THEN <<[tag |-> "ticket", text |-> l.jira_ticket]>>
     ELSE <<[tag |-> "session_from", date |-> l.date]>>)
    \o (IF Truthy(l.problem_description)
        THEN RenderField("problem", l.problem_description, ProblemBudget) ELSE <<>>)
    \o (IF Truthy(l.root_cause)
        THEN RenderField("root_cause", l.root_cause, RootCauseBudget) ELSE <<>>)
    \o (IF Truthy(l.solution)
        THEN RenderField("solution", l.solution, SolutionBudget) ELSE <<>>)
    \o (IF Truthy(l.resources_modified)
        THEN <<[tag |-> "resources"]>>
             \o [i \in 1..Len(Prefix(l.resources_modified, ResourcesShown)) |->
                    [tag |-> "resource", text |-> l.resources_modified[i]]]
             \o <<[tag |-> "newline"]>>
        ELSE <<>>)
    \o <<[tag |-> "separator"]>>

RECURSIVE Flatten(_)
Flatten(seqs) == IF seqs = <<>> THEN <<>> ELSE seqs[1] \o Flatten(Tail(seqs))

\* lines 159-198: the block of one category
RenderCategory(item) ==
    <<[tag |-> "category", category |-> item.key],
      [tag |-> "occurrences", n |-> Len(item.value)]>>
    \o Flatten([i \in 1..Len(item.value) |-> RenderLearning(item.value[i])])

\* lines 157-198
RenderCategories(p) ==
    LET blocks == Items(SortedDescending(ByListLength(p.problem_categories)))
    IN  Flatten([i \in 1..Len(blocks) |-> RenderCategory(blocks[i])])

\* lines 201-207
RenderNamespaces(p) ==
    <<[tag |-> "namespace_activity"]>>
    \o (IF p.namespace_patterns # <<>>
        THEN LET shown == Prefix(Items(SortedDescending(ByCount(p.namespace_patterns))), NamespacesShown)
             IN  [i \in 1..Len(shown) |->
                    [tag |-> "namespace", ns |-> shown[i].key, count |-> shown[i].value]]
        ELSE <<[tag |-> "no_namespaces"]>>)

\* the orders list(set(all_learnings)) may come out in: a set of str has no fixed order
SetOrders(items) ==
    LET S == {items[i] : i \in 1..Len(items)}
    IN  {f \in [1..Cardinality(S) -> S] : \A i, j \in 1..Cardinality(S) : f[i] = f[j] => i = j}

\* lines 210-217, unique_learnings given
RenderKeyLearnings(p, unique_learnings) ==
    <<[tag |-> "key_learnings"]>>
    \o (IF p.all_learnings # <<>>
        THEN [i \in 1..Len(Prefix(unique_learnings, LearningsShown)) |->
                [tag |-> "learning", text |-> unique_learnings[i]]]
        ELSE <<[tag |-> "no_learnings"]>>)

generate_knowledge_base_update(p, ls, unique_learnings) ==
    <<[tag |-> "title", total |-> Len(ls)]>>
    \o RenderCategories(p)
    \o RenderNamespaces(p)
    \o RenderKeyLearnings(p, unique_learnings)
    \o <<[tag |-> "how_to_use"]>>

-----------------------------------------------------------------------------
(* Aggregation and rendering: main's last steps on a list of parsed records. *)

ExtractPatterns ==
    /\ pc = "extract_patterns"
    /\ patterns' = extract_patterns(learnings)
    /\ pc' = "generate"
    /\ UNCHANGED <<learnings, md, outsideAggregate>>

GenerateKnowledgeBase ==
    /\ pc = "generate"
    /\ \E unique_learnings \in SetOrders(patterns.all_learnings) :
         md' = generate_knowledge_base_update(patterns, learnings, unique_learnings)
    /\ pc' = "write"
    /\ UNCHANGED <<learnings, patterns, outsideAggregate>>

NextAggregate == ExtractPatterns \/ GenerateKnowledgeBase

\* The corpus: at most MaxRecords records, each one of SampleLearnings.
MaxRecords == 4

SampleLearnings ==
    { [NewLearning EXCEPT !.date = <<"2","0","2","4","-","0","1","-","0","1">>, !.jira_ticket = <<"P","R","O","J","-","1">>,
                          !.problem_description = <<"P","o","d"," ","O","O","M","K","i","l","l","e","d">>,
                          !.root_cause = <<"m","e","m","o","r","y"," ","l","i","m","i","t">>, !.solution = <<"r","a","i","s","e","d"," ","l","i","m","i","t">>,
                          !.resources_modified = <<<<"d","e","p","l","o","y","m","e","n","t","/","a","p","i">>, <<"c","o","n","f","i","g","m","a","p","/","a","p","i">>,
                                                   <<"h","p","a","/","a","p","i">>, <<"s","e","r","v","i","c","e","/","a","p","i">>>>,
                          !.key_learnings = <<<<"r","e","t","r","y">>>>,
                          !.namespaces = <<<<"a">>, <<"a">>, <<"b">>>>],
      [NewLearning EXCEPT !.date = <<"2","0","2","4","-","0","1","-","0","2">>, !.jira_ticket = <<"N","o","t"," ","s","p","e","c","i","f","i","e","d">>,
                          !.problem_description = <<"o","u","t"," ","o","f"," ","m","e","m","o","r","y">>,
                          !.key_learnings = <<<<"r","e","t","r","y">>, <<"s","e","t"," ","l","i","m","i","t","s">>>>,
                          !.namespaces = <<<<"a">>>>],
      [NewLearning EXCEPT !.root_cause = <<"C","r","a","s","h","L","o","o","p">>, !.namespaces = <<<<"b">>>>],
      NewLearning,
      [NewLearning EXCEPT !.jira_ticket = <<"P","R","O","J","-","2">>, !.problem_description = <<"p","e","n","d","i","n","g"," ","p","v","c">>,
                          !.namespaces = <<<<"c">>>>] }

InitAggregate ==
    /\ pc = "extract_patterns"
    /\ learnings \in UNION {[1..n -> SampleLearnings] : n \in 0..MaxRecords}
    /\ patterns = None
    /\ md = <<>>
    /\ IdleSection
    /\ IdleClassify
    /\ IdleAnalyze
    /\ IdleLocate

SpecAggregate == InitAggregate /\ [][NextAggregate]_vars

\* What the input list says, read off it record by record: cats[n] is the category
\* _categorize_problem returns for the n-th record.
InputCategories == [n \in 1..Len(learnings) |-> _categorize_problem(learnings[n])]
RecordsIn(cats, c) == {n \in 1..Len(cats) : cats[n] = c}
RECURSIVE SumOfLengths(_)
SumOfLengths(d) == IF d = <<>> THEN 0 ELSE Len(d[1].value) + SumOfLengths(Tail(d))
RECURSIVE Subsequence(_, _, _, _)
\* the items of s whose category is c, from position n on, in the order of s
Subsequence(s, cats, c, n) ==
    IF n > Len(s) THEN <<>>
    ELSE (IF cats[n] = c THEN <<s[n]>> ELSE <<>>) \o Subsequence(s, cats, c, n + 1)
OccurrencesIn(namespaces, ns) == Cardinality({k \in 1..Len(namespaces) : namespaces[k] = ns})
RECURSIVE Occurrences(_, _)
Occurrences(ls, ns) ==
    IF ls = <<>> THEN 0 ELSE OccurrencesIn(ls[1].namespaces, ns) + Occurrences(Tail(ls), ns)
Aggregated == pc \in {"generate", "write"}

\* C5: after extract_patterns the per-category lists partition the input: each category
\* is one key, its list is never empty and is exactly the input records of that category
\* in input order, the keys are the categories of the input records, and the list lengths
\* sum to the number of records.
C5_ListsPartitionInput ==
    Aggregated =>
        LET d == patterns.problem_categories
            cats == InputCategories
        IN  /\ \A i, j \in 1..Len(d) : d[i].key = d[j].key => i = j
            /\ \A i \in 1..Len(d) :
                 /\ d[i].value # <<>>
                 /\ d[i].value = Subsequence(learnings, cats, d[i].key, 1)
            /\ Keys(d) = {cats[n] : n \in 1..Len(learnings)}
            /\ SumOfLengths(d) = Len(learnings)

\* C5 witness: three records, the first and the third different records of one category,
\* the second of another.
C5_Witness ==
    /\ Aggregated
    /\ Len(learnings) = 3
    /\ learnings[1] # learnings[3]
    /\ Len(patterns.problem_categories) = 2
    /\ patterns.problem_categories[1].value = <<learnings[1], learnings[3]>>
    /\ patterns.problem_categories[2].value = <<learnings[2]>>

\* C6: after extract_patterns the count of each namespace is the number of times it
\* occurs in the namespace lists of all records, repeats within a record included, and
\* the namespaces counted are exactly those that occur.
C6_NamespaceCountsExact ==
    Aggregated =>
        LET d == patterns.namespace_patterns
        IN  /\ \A i, j \in 1..Len(d) : d[i].key = d[j].key => i = j
            /\ \A i \in 1..Len(d) :
                 d[i].value >= 1 /\ d[i].value = Occurrences(learnings, d[i].key)
            /\ Keys(d) = UNION {{learnings[n].namespaces[k] : k \in 1..Len(learnings[n].namespaces)} :
                                    n \in 1..Len(learnings)}

\* C6 witness: the lists ["a","a","b"] and ["a"] have been counted as {a: 3, b: 1}.
C6_Witness ==
    /\ Aggregated
    /\ Len(learnings) = 2
    /\ learnings[1].namespaces = <<<<"a">>, <<"a">>, <<"b">>>>
    /\ learnings[2].namespaces = <<<<"a">>>>
    /\ Keys(patterns.namespace_patterns) = {<<"a">>, <<"b">>}
    /\ Lookup(patterns.namespace_patterns, <<"a">>) = 3
    /\ Lookup(patterns.namespace_patterns, <<"b">>) = 1

\* the categories of the document's category blocks, in document order
IsCategoryPiece(piece) == piece.tag = "category"
CategoryBlocks ==
    LET heads == SelectSeq(md, IsCategoryPiece)
    IN  [i \in 1..Len(heads) |-> heads[i].category]

\* C7: in the document the category blocks come in order of non-increasing record count,
\* and blocks with equal counts in the order in which their categories first occur in
\* the input; every category of the input has exactly one block.
C7_BlocksByCountThenDiscovery ==
    pc = "write" =>
        LET cats == InputCategories
            blocks == CategoryBlocks
        IN  /\ \A i, j \in 1..Len(blocks) :
                 i < j =>
                    /\ Cardinality(RecordsIn(cats, blocks[i])) >= Cardinality(RecordsIn(cats, blocks[j]))
                    /\ Cardinality(RecordsIn(cats, blocks[i])) = Cardinality(RecordsIn(cats, blocks[j]))
                            => Min(RecordsIn(cats, blocks[i])) < Min(RecordsIn(cats, blocks[j]))
            /\ {blocks[i] : i \in 1..Len(blocks)} = {cats[n] : n \in 1..Len(learnings)}

\* C7 witness: a document for four records in which the category discovered second has
\* the most records and the other two, tied, follow in discovery order.
C7_Witness ==
    /\ pc = "write"
    /\ Len(learnings) = 4
    /\ LET cats == InputCategories
       IN  /\ CategoryBlocks = <<cats[2], cats[1], cats[3]>>
           /\ cats[4] = cats[2]
           /\ cats[1] # cats[2]
           /\ cats[3] \notin {cats[1], cats[2]}

-----------------------------------------------------------------------------
(* Rendering of long fields: one record whose problem description, root cause and  *)
(* solution are unset, empty, or of a length around the budget of the field, up to *)
(* MaxOverrun characters past it.                                                  *)

MaxOverrun == 2

Digits == <<"0","1","2","3","4","5","6","7","8","9">>

\* a text of n characters cycling through the digits: shifted by one it is another text
TextOfLength(n) == [i \in 1..n |-> Digits[(i % 10) + 1]]

FieldValues(budget) ==
    {None} \cup {TextOfLength(n) : n \in {0, 1} \cup ((budget - 1)..(budget + MaxOverrun))}

InitRender ==
    /\ pc = "extract_patterns"
    /\ \E pd \in FieldValues(ProblemBudget), rc \in FieldValues(RootCauseBudget),
          sol \in FieldValues(SolutionBudget) :
         learnings = <<[NewLearning EXCEPT !.jira_ticket = <<"P","R","O","J","-","1">>,
                                           !.problem_description = pd,
                                           !.root_cause = rc,
                                           !.solution = sol]>>
    /\ patterns = None
    /\ md = <<>>
    /\ IdleSection
    /\ IdleClassify
    /\ IdleAnalyze
    /\ IdleLocate

SpecRender == InitRender /\ [][NextAggregate]_vars

PiecesTagged(tag) == {i \in 1..Len(md) : md[i].tag = tag}

\* how the document must show a field of the one record: not at all when the field is
\* unset or empty; else one piece, the field itself when it fits its budget and its first
\* budget-many characters when it does not, followed by an ellipsis exactly when it did not fit
ShownWithinBudget(tag, value, budget) ==
    IF value = None \/ value = <<>>
    THEN PiecesTagged(tag) = {}
    ELSE /\ Cardinality(PiecesTagged(tag)) = 1
         /\ LET i == CHOOSE i \in PiecesTagged(tag) : TRUE
            IN  /\ Len(value) <= budget => md[i].text = value
                /\ Len(value) > budget => md[i].text = SubSeq(value, 1, budget)
                /\ (md[i + 1].tag = "ellipsis") <=> (Len(value) > budget)

OverBudget(value, budget) == IF value # None /\ Len(value) > budget THEN 1 ELSE 0

\* C8: each of problem_description (budget 200), root_cause (150) and solution (150) is
\* rendered verbatim with no ellipsis when its length is at most its budget, and as
\* exactly its first budget-many characters followed by "..." when it is longer.
C8_TruncatedToBudget ==
    pc = "write" =>
        /\ ShownWithinBudget("problem", learnings[1].problem_description, ProblemBudget)
        /\ ShownWithinBudget("root_cause", learnings[1].root_cause, RootCauseBudget)
        /\ ShownWithinBudget("solution", learnings[1].solution, SolutionBudget)
        /\ Cardinality(PiecesTagged("ellipsis"))
             = OverBudget(learnings[1].problem_description, ProblemBudget)
               + OverBudget(learnings[1].root_cause, RootCauseBudget)
               + OverBudget(learnings[1].solution, SolutionBudget)

\* C8 witness: a 201-character problem description rendered as its first 200 characters
\* and an ellipsis, beside a 150-character root cause rendered whole with none.
C8_Witness ==
    /\ pc = "write"
    /\ Len(learnings[1].problem_description) = 201
    /\ Len(learnings[1].root_cause) = 150
    /\ \E i \in PiecesTagged("problem") :
         /\ md[i].text = SubSeq(learnings[1].problem_description, 1, 200)
         /\ md[i + 1].tag = "ellipsis"
    /\ \E i \in PiecesTagged("root_cause") :
         /\ md[i].text = learnings[1].root_cause
         /\ md[i + 1].tag = "break"

\* ---------------------------------------------------------------------------
\* main: locating the summaries and pairing each with a learning report.
\* A path is the sequence of names below the root (session_dir), so the root
\* is <<>>; the file system is the set of directories and the set of files.

Root == <<>>
NoPath == <<None>>
SummaryPrefix == <<"k","8","s","-","s","e","s","s","i","o","n","-","s","u","m","m","a","r","y","-">>
TxtSuffix == <<".","t","x","t">>
SummaryInDir == <<"k","8","s","-","s","e","s","s","i","o","n","-","s","u","m","m","a","r","y",".","t","x","t">>
LearningReportName == <<"s","e","s","s","i","o","n","-","l","e","a","r","n","i","n","g","-","r","e","p","o","r","t",".","m","d">>
TroubleshooterDir == <<"k","8","s","-","t","r","o","u","b","l","e","s","h","o","o","t","e","r">>

Name(path) == path[Len(path)]
Parent(path) == SubSeq(path, 1, Len(path) - 1)
Exists(path) == path \in fs.dirs \cup fs.files
IsDir(path) == path \in fs.dirs
Children(dir) == {p \in fs.dirs \cup fs.files : Len(p) = Len(dir) + 1 /\ Parent(p) = dir}

EndsWith(s, w) == Len(s) >= Len(w) /\ StartsWithAt(s, Len(s) - Len(w) + 1, w)

\* glob('k8s-session-summary-*.txt'): the star takes any run, the empty one too
MatchesSummaryGlob(name) ==
    /\ Len(name) >= Len(SummaryPrefix) + Len(TxtSuffix)
    /\ StartsWithAt(name, 1, SummaryPrefix)
    /\ EndsWith(name, TxtSuffix)

\* str.replace(w, ''): every occurrence of w, left to right, is dropped
RECURSIVE Remove(_, _)
Remove(s, w) ==
    IF s = <<>> THEN <<>>
    ELSE IF StartsWithAt(s, 1, w) THEN Remove(SubSeq(s, Len(w) + 1, Len(s)), w)
    ELSE <<s[1]>> \o Remove(Tail(s), w)

\* line 274
Timestamp(name) == Remove(Remove(name, SummaryPrefix), TxtSuffix)

\* the orders in which a glob may yield a set of paths
GlobOrders(paths) ==
    {f \in [1..Cardinality(paths) -> paths] :
        \A i, j \in 1..Cardinality(paths) : f[i] = f[j] => i = j}

\* lines 250 and 255: the filter on what glob('*') yields
IsSessionDir(d) == IsDir(d) /\ StartsWithAt(Name(d), 1, <<"2">>)
\* mutant of SessionDirsIn: the root's children, whichever directory is asked for
SessionDirsOfRoot(dir) == {d \in Children(Root) : IsSessionDir(d)}
SessionDirsIn(dir) == {d \in Children(dir) : IsSessionDir(d)}

\* lines 257-260
RECURSIVE SummariesIn(_)
SummariesIn(dirs) ==
    IF dirs = <<>> THEN <<>>
    ELSE (IF Exists(Append(Head(dirs), SummaryInDir))
          THEN <<Append(Head(dirs), SummaryInDir)>> ELSE <<>>)
         \o SummariesIn(Tail(dirs))

\* lines 276-279: the first directory whose name holds the timestamp
RECURSIVE FirstReport(_, _)
FirstReport(timestamp, dirs) ==
    IF dirs = <<>> THEN NoPath
    ELSE IF Contains(Name(Head(dirs)), timestamp)
         THEN Append(Head(dirs), LearningReportName)
         ELSE FirstReport(timestamp, Tail(dirs))

\* lines 266-279
PairedReport(path, dirs) ==
    IF Parent(path) # Root
    THEN Append(Parent(path), LearningReportName)
    ELSE FirstReport(Timestamp(Name(path)), dirs)

\* what the files hold: every summary the same lines, every report the same
SummaryContent == <<"D","a","t","e",":"," ","2","0","2","4","-","0","1","-","0","1","\n","J","i","r","a"," ","T","i","c","k","e","t",":"," ","P","R","O","J","-","1","\n","A","f","f","e","c","t","e","d"," ","N","a","m","e","s","p","a","c","e","s",":"," ","p","r","o","d","\n">>
ReportContent == <<"#","#"," ","R","o","o","t"," ","C","a","u","s","e","\n","o","o","m","\n","\n","#","#"," ","K","e","y"," ","L","e","a","r","n","i","n","g","s","\n","-"," ","r","a","i","s","e"," ","t","h","e"," ","l","i","m","i","t","\n">>
TextAt(path) ==
    IF path \notin fs.files THEN <<>>
    ELSE IF Name(path) = LearningReportName THEN ReportContent
    ELSE SummaryContent

\* a path as analyze_session sees it
FileAt(path) ==
    IF path = NoPath THEN [given |-> FALSE, exists |-> FALSE, text |-> <<>>, path |-> NoPath]
    ELSE [given |-> TRUE, exists |-> Exists(path), text |-> TextAt(path), path |-> path]

\* lines 246-262
Discover ==
    /\ pc = "locate"
    /\ \E legacy \in GlobOrders({p \in Children(Root) : MatchesSummaryGlob(Name(p))}),
          inRoot \in GlobOrders(SessionDirsIn(Root)),
          inTroubleshooter \in GlobOrders(SessionDirsIn(<<TroubleshooterDir>>)) :
         LET dirs == inRoot \o (IF Exists(<<TroubleshooterDir>>) THEN inTroubleshooter ELSE <<>>)
         IN  /\ session_dirs' = dirs
             /\ summary_files' = legacy \o SummariesIn(dirs)
             /\ pc' = IF legacy \o SummariesIn(dirs) = <<>> THEN "extract_patterns" ELSE "analyze"
    /\ UNCHANGED <<fs, idx, summary_file, learning_report, learning, aggregateVars, outsideMain>>

\* lines 264-282: one turn of the loop
AnalyzeSummary ==
    /\ pc = "analyze"
    /\ idx < Len(summary_files)
    /\ LET f == FileAt(summary_files[idx + 1])
           r == FileAt(PairedReport(summary_files[idx + 1], session_dirs))
       IN  /\ summary_file' = f
           /\ learning_report' = r
           /\ IF AnalyzeRaises(f, r)
              THEN pc' = "raised" /\ UNCHANGED <<learning, learnings, idx>>
              ELSE /\ learning' = analyze_session(f, r)
                   /\ learnings' = Append(learnings, learning')
                   /\ idx' = idx + 1
                   /\ pc' = IF idx + 1 < Len(summary_files) THEN "analyze" ELSE "extract_patterns"
    /\ UNCHANGED <<fs, summary_files, session_dirs, patterns, md, outsideMain>>

NextMain == Discover \/ AnalyzeSummary \/ ExtractPatterns \/ GenerateKnowledgeBase

\* The layouts the run starts from.  Below the root: legacy summaries, the
\* session directories 2024-01 and 2024-03 (the latter possibly a plain file),
\* a directory that is no session directory, and k8s-troubleshooter with a
\* session directory of its own that shares its name with one of the root's.
MaxLegacy == 2
LegacyNames ==
    { <<"k","8","s","-","s","e","s","s","i","o","n","-","s","u","m","m","a","r","y","-","2","0","2","4",".","t","x","t">>, <<"k","8","s","-","s","e","s","s","i","o","n","-","s","u","m","m","a","r","y","-","0","3",".","t","x","t">>,
      <<"k","8","s","-","s","e","s","s","i","o","n","-","s","u","m","m","a","r","y","-","2","0","2","5",".","t","x","t">>, <<"k","8","s","-","s","e","s","s","i","o","n","-","s","u","m","m","a","r","y","-","0","3",".","t","x","t",".","t","x","t">> }
DirChoices == {"absent", "report", "summary", "both"}
DirTree(dir, choice) ==
    [dirs  |-> IF choice = "absent" THEN {} ELSE {dir},
     files |-> (IF choice \in {"summary", "both"} THEN {Append(dir, SummaryInDir)} ELSE {})
               \cup (IF choice \in {"report", "both"} THEN {Append(dir, LearningReportName)} ELSE {})]
PlainFile(path) == [dirs |-> {}, files |-> {path}]
Merge(a, b) == [dirs |-> a.dirs \cup b.dirs, files |-> a.files \cup b.files]
TroubleshooterTree(choice) ==
    IF choice = "absent" THEN [dirs |-> {}, files |-> {}]
    ELSE IF choice = "empty" THEN [dirs |-> {<<TroubleshooterDir>>}, files |-> {}]
    ELSE Merge([dirs |-> {<<TroubleshooterDir>>}, files |-> {}],
               DirTree(<<TroubleshooterDir, <<"2","0","2","4","-","0","1">>>>, choice))
Layouts ==
    { Merge([dirs |-> {}, files |-> {<<n>> : n \in legacy} \cup {<<<<"s","e","s","s","i","o","n","-","k","n","o","w","l","e","d","g","e",".","m","d">>>>}],
        Merge(DirTree(<<<<"2","0","2","4","-","0","1">>>>, a),
          Merge(IF b = "file" THEN PlainFile(<<<<"2","0","2","4","-","0","3">>>>) ELSE DirTree(<<<<"2","0","2","4","-","0","3">>>>, b),
            Merge(DirTree(<<<<"a","r","c","h","i","v","e">>>>, c), TroubleshooterTree(t))))) :
        legacy \in {s \in SUBSET LegacyNames : Cardinality(s) <= MaxLegacy},
        a \in DirChoices, b \in DirChoices \cup {"file"}, c \in {"absent", "both"},
        t \in {"absent", "empty", "report", "summary", "both"} }

InitMain ==
    /\ pc = "locate"
    /\ fs \in Layouts
    /\ summary_files = <<>> /\ session_dirs = <<>> /\ idx = 0
    /\ summary_file = NoFile /\ learning_report = NoFile
    /\ learning = NewLearning /\ category = None
    /\ IdleSection
    /\ IdleAggregate

SpecMain == InitMain /\ [][NextMain]_vars

\* ---------------------------------------------------------------------------
\* C9, C10: what the locator finds and pairs.

StartsWithTwo(name) == Len(name) >= 1 /\ name[1] = "2"
\* the directories the locator is to treat as session directories
SessionPlaces ==
    {d \in fs.dirs : /\ Len(d) = 1 \/ (Len(d) = 2 /\ d[1] = TroubleshooterDir)
                     /\ StartsWithTwo(Name(d))}
WithSummaryInside == {d \in SessionPlaces : Append(d, SummaryInDir) \in fs.files}
PositionsOf(path) == {k \in 1..Len(summary_files) : summary_files[k] = path}
Located == pc # "locate"
LoopDone == pc \in {"extract_patterns", "generate", "write"}

\* C9: once the locator has run, every session directory (name starting with
\* 2, child of the root or of the root's k8s-troubleshooter) that holds
\* k8s-session-summary.txt has that file exactly once in the summary list, and
\* when the loop is over there is one record for each entry of the list.
C9_SessionSummaryExactlyOnce ==
    /\ Located =>
         \A d \in WithSummaryInside :
             Cardinality(PositionsOf(Append(d, SummaryInDir))) = 1
    /\ Located => Len(learnings) = idx /\ idx <= Len(summary_files)
    /\ LoopDone => Len(learnings) = Len(summary_files)

\* session directories with a summary both below the root and below
\* k8s-troubleshooter, under the same name, and every record made
C9_Witness ==
    /\ LoopDone
    /\ \E d \in WithSummaryInside : Len(d) = 1 /\ <<TroubleshooterDir, Name(d)>> \in WithSummaryInside
    /\ Cardinality(WithSummaryInside) = 3
    /\ Len(learnings) >= 3

\* the <token> of a legacy name: what stands between the prefix and ".txt"
Token(name) == SubSeq(name, Len(SummaryPrefix) + 1, Len(name) - Len(TxtSuffix))
DirsHolding(token) == {k \in 1..Len(session_dirs) : Contains(Name(session_dirs[k]), token)}
FirstOf(S) == CHOOSE k \in S : \A other \in S : k <= other
\* the loop has just taken a legacy summary
LegacyTaken ==
    /\ pc \in {"analyze", "extract_patterns"} /\ idx >= 1
    /\ summary_file.path = summary_files[idx]
    /\ Len(summary_file.path) = 1
\* root children come before k8s-troubleshooter children
RootChildrenFirst ==
    \A j, k \in 1..Len(session_dirs) :
        Len(session_dirs[j]) = 1 /\ Len(session_dirs[k]) = 2 => j < k
PairedWithFirstHolding(token) ==
    IF DirsHolding(token) = {}
    THEN learning_report.path = NoPath /\ ~learning_report.given
    ELSE learning_report.path = Append(session_dirs[FirstOf(DirsHolding(token))], LearningReportName)

\* C10: a legacy summary k8s-session-summary-<token>.txt of the root is paired
\* with session-learning-report.md of the first discovered session directory
\* (root children before k8s-troubleshooter children) whose name contains
\* <token>; with no such directory no report is paired, and either way the
\* summary has made exactly one record.
C10_PairedByToken ==
    /\ Located => RootChildrenFirst
    /\ LegacyTaken =>
         /\ PairedWithFirstHolding(Token(Name(summary_file.path)))
         /\ Len(learnings) = idx

\* C10 as the code has it: the token is the name with every occurrence of the
\* prefix and of ".txt" taken out, which is <token> unless <token> itself
\* holds one of the two.
C10_PairedByStrippedName ==
    /\ Located => RootChildrenFirst
    /\ LegacyTaken =>
         /\ PairedWithFirstHolding(Timestamp(Name(summary_file.path)))
         /\ Len(learnings) = idx
         /\ (~Contains(Token(Name(summary_file.path)), TxtSuffix)
             /\ ~Contains(Token(Name(summary_file.path)), SummaryPrefix)
             => Timestamp(Name(summary_file.path)) = Token(Name(summary_file.path)))

\* a token held by several directories, the first of them a root child and
\* not the only one; and a token no directory holds
C10_SeveralHold ==
    /\ LegacyTaken
    /\ Cardinality(DirsHolding(Timestamp(Name(summary_file.path)))) = 3
    /\ learning_report.path = Append(session_dirs[1], LearningReportName)
C10_NoneHolds ==
    /\ LegacyTaken
    /\ session_dirs # <<>>
    /\ DirsHolding(Timestamp(Name(summary_file.path))) = {}
    /\ learning_report.path = NoPath

\* ---------------------------------------------------------------------------
\* The summary alone: analyze_session on summaries whose metadata lines are
\* missing, blank, blank but for spaces, plain, padded, or without a space
\* after the label; no report is given.

SummaryLineChoices == {"absent", "blank", "spaces", "value", "padded", "tight"}
SummaryLine(label, value, c) ==
    IF c = "absent" THEN <<>>
    ELSE IF c = "blank" THEN label \o <<"\n">>
    ELSE IF c = "spaces" THEN label \o <<" "," ","\n">>
    ELSE IF c = "value" THEN label \o <<" ">> \o value \o <<"\n">>
    ELSE IF c = "padded" THEN label \o <<" "," ">> \o value \o <<" ","\n">>
    ELSE label \o value \o <<"\n">>
SummaryLines(d, j, n) ==
    <<"S","e","s","s","i","o","n"," ","S","u","m","m","a","r","y","\n">>
    \o SummaryLine(DateLabel, <<"2","0","2","4","-","0","1","-","0","1">>, d)
    \o SummaryLine(JiraTicketLabel, <<"P","R","O","J","-","1">>, j)
    \o SummaryLine(NamespacesLabel, <<"n","s","-","a"," ","n","s","-","b">>, n)
InitSummary ==
    /\ pc = "analyze_session"
    /\ \E d \in SummaryLineChoices, j \in SummaryLineChoices, n \in SummaryLineChoices :
         summary_file = [given |-> TRUE, exists |-> TRUE, text |-> SummaryLines(d, j, n)]
    /\ learning_report = NoFile
    /\ learning = None
    /\ category = None
    /\ IdleSection
    /\ IdleAggregate
    /\ IdleLocate
SpecSummary == InitSummary /\ [][NextAnalyze]_vars

\* the rest of the line on which the label first stands, trimmed
LabelAt(text, label) == Min({i \in 1..Len(text) : StartsWithAt(text, i, label)})
RestOfLine(text, label) ==
    Strip(SubSeq(text, LabelAt(text, label) + Len(label),
                 LineEnd(text, LabelAt(text, label) + Len(label))))
\* what follows the label's line: the next line, trimmed
NextLine(text, label) ==
    LET e == LineEnd(text, LabelAt(text, label) + Len(label))
    IN  Strip(SubSeq(text, e + 2, LineEnd(text, e + 2)))
OwnLineOnly(label, unset, field) ==
    IF ~SummaryHas(label) \/ RestOfLine(summary_file.text, label) = <<>>
    THEN field = unset
    ELSE field \in {unset, RestOfLine(summary_file.text, label)}

\* C11: each of the three metadata fields takes nothing but the trimmed rest
\* of the line its label stands on (the namespaces split at whitespace), and a
\* label followed by nothing but whitespace on its line leaves the field
\* unset: it never receives text from a following line.
C11_CaptureOwnLineOnly ==
    pc = "returned" =>
        /\ OwnLineOnly(DateLabel, None, learning.date)
        /\ OwnLineOnly(JiraTicketLabel, None, learning.jira_ticket)
        /\ IF ~SummaryHas(NamespacesLabel) \/ RestOfLine(summary_file.text, NamespacesLabel) = <<>>
           THEN learning.namespaces = <<>>
           ELSE learning.namespaces \in
                  {<<>>, SplitWhitespace(RestOfLine(summary_file.text, NamespacesLabel))}

\* what the code does with a label whose line is blank: \s+ runs over the line
\* break, so the field takes the next line that is not blank, label and all
C11_BlankLineTakesNextLine ==
    pc = "returned" /\ SummaryHas(DateLabel)
    /\ RestOfLine(summary_file.text, DateLabel) = <<>>
    /\ NextLine(summary_file.text, DateLabel) # <<>>
    => learning.date = NextLine(summary_file.text, DateLabel)
C11_BlankDateTakesTicketLine ==
    /\ pc = "returned"
    /\ SummaryHas(DateLabel)
    /\ RestOfLine(summary_file.text, DateLabel) = <<>>
    /\ learning.date = <<"J","i","r","a"," ","T","i","c","k","e","t",":"," ","P","R","O","J","-","1">>
    /\ learning.jira_ticket = <<"P","R","O","J","-","1">>

\* ---------------------------------------------------------------------------
\* The bullet sections alone: analyze_session on reports that hold a Resources
\* Modified section of up to MaxBulletLines lines and, or not, a Key Learnings
\* section.

MaxBulletLines == 2
SectionLines ==
    { <<"-"," ","d","e","p","l","o","y","m","e","n","t","/","a","p","i">>, <<"n","o","t","e">>, <<" "," ","-"," ","-","-","d","r","y","-","r","u","n"," ","f","l","a","g">>, <<"-"," ","r","e","t","r","y"," ","-">>,
      <<"-">>, <<"-","t","i","g","h","t">>, <<"*"," ","s","t","a","r">> }
SectionBodies ==
    UNION {[1..n -> SectionLines] : n \in 1..MaxBulletLines}
LearningsBodies == {<<<<"-"," ","r","e","t","r","y"," ","-">>, <<"-"," ","c","h","e","c","k"," ","l","i","m","i","t","s">>>>, <<<<"-"," ","-","-","f","o","r","c","e">>>>}
BulletReport(resources, key_learnings) ==
    <<"#"," ","R","e","p","o","r","t","\n","\n">>
    \o SectionText(ResourcesModified, Join(resources, <<"\n">>), "filled")
    \o (IF key_learnings = <<>> THEN <<>>
        ELSE SectionText(KeyLearnings, Join(key_learnings, <<"\n">>), "filled"))
InitBullets ==
    /\ pc = "analyze_session"
    /\ summary_file = [given |-> TRUE, exists |-> FALSE, text |-> <<>>]
    /\ \E resources \in SectionBodies, key_learnings \in LearningsBodies \cup {<<>>} :
         learning_report =
             [given |-> TRUE, exists |-> TRUE, text |-> BulletReport(resources, key_learnings)]
    /\ learning = None
    /\ category = None
    /\ IdleSection
    /\ IdleAggregate
    /\ IdleLocate
SpecBullets == InitBullets /\ [][NextAnalyze]_vars

\* the lines of a section that start with the bullet marker, in source order
StartsWithMarker(line) == Strip(line) # <<>> /\ Strip(line)[1] = "-"
SectionOf(name) == _extract_section(learning_report.text, name)
BulletLinesOf(name) ==
    IF SectionOf(name) = None THEN <<>>
    ELSE SelectSeq(SplitOn(SectionOf(name), "\n"), StartsWithMarker)
\* a bullet line without its marker and the whitespace around
MarkerRemoved(line) == Strip(Tail(Strip(line)))
\* a bullet line without any "-" or " " at either end
EdgesRemoved(line) == StripChars(MarkerRemoved(line), {"-", " "})
ItemsAre(items, name, Entry(_)) ==
    /\ Len(items) = Len(BulletLinesOf(name))
    /\ \A i \in 1..Len(items) : items[i] = Entry(BulletLinesOf(name)[i])

\* C12: Resources Modified and Key Learnings give one entry per section line
\* that starts with "-", in source order, each entry being the line without
\* the leading marker and the whitespace around it; every other character,
\* "-" at the start or end of the item included, is kept.
C12_BulletItemsPreserved ==
    pc = "returned" =>
        /\ ItemsAre(learning.resources_modified, ResourcesModified, MarkerRemoved)
        /\ ItemsAre(learning.key_learnings, KeyLearnings, MarkerRemoved)

\* what the code does: one entry per bullet line, in source order, but with
\* every "-" and " " taken off both ends of the item
C12_BulletItemsWithoutEdges ==
    pc = "returned" =>
        /\ ItemsAre(learning.resources_modified, ResourcesModified, EdgesRemoved)
        /\ ItemsAre(learning.key_learnings, KeyLearnings, EdgesRemoved)
C12_DashesLost ==
    /\ pc = "returned"
    /\ BulletLinesOf(ResourcesModified) = <<<<"-"," ","r","e","t","r","y"," ","-">>, <<" "," ","-"," ","-","-","d","r","y","-","r","u","n"," ","f","l","a","g">>>>
    /\ learning.resources_modified = <<<<"r","e","t","r","y">>, <<"d","r","y","-","r","u","n"," ","f","l","a","g">>>>

====
